---- MODULE Spec2Model ----
(***************************************************************************)
(* Model of the airport-code enrichment pipeline: checkpoint store         *)
(* (checkpoint.py), resilient call layer (llm.py) and batch orchestrator   *)
(* with its output merger (enrich_airport_codes.py).                       *)
(*                                                                         *)
(* Text values (codes, cell values) are sequences of one-character         *)
(* strings, so that strip / upper / split / join are computed and not      *)
(* assumed.  Column names, checkpoint keys and model names are TLA+        *)
(* strings: the code only uses them as dictionary keys.                    *)
(***************************************************************************)
EXTENDS Integers, Sequences, FiniteSets, TLC

----------------------------------------------------------------------------
(* Bounds of the model *)

\* longest input file, in rows
MaxRows == 2
\* number of successive invocations of the enrichment command
MaxRuns == 2

----------------------------------------------------------------------------
(* Text primitives *)

Range(s) == { s[i] : i \in 1..Len(s) }

\* str.upper() on the characters the model uses
UpperChar(c) ==
    CASE c = "a" -> "A"
      [] c = "b" -> "B"
      [] c = "c" -> "C"
      [] c = "w" -> "W"
      [] c = "x" -> "X"
      [] OTHER -> c

Upper(s) == [i \in 1..Len(s) |-> UpperChar(s[i])]

IsSpace(c) == c = " "

RECURSIVE LStrip(_)
LStrip(s) == IF s # <<>> /\ IsSpace(Head(s)) THEN LStrip(Tail(s)) ELSE s

RECURSIVE RStrip(_)
RStrip(s) ==
    IF s # <<>> /\ IsSpace(s[Len(s)]) THEN RStrip(SubSeq(s, 1, Len(s) - 1)) ELSE s

\* str.strip()
Strip(s) == RStrip(LStrip(s))

\* str.startswith(p)
StartsWith(s, p) == Len(s) >= Len(p) /\ SubSeq(s, 1, Len(p)) = p

\* str.find(sep): index (1-based) of the first occurrence of sep in s, 0 if none
Find(s, sep) ==
    LET hits == { i \in 1..(Len(s) - Len(sep) + 1) : SubSeq(s, i, i + Len(sep) - 1) = sep }
    IN  IF hits = {} THEN 0 ELSE CHOOSE i \in hits : \A j \in hits : i <= j

\* sep.join(parts)
RECURSIVE Join(_, _)
Join(parts, sep) ==
    IF parts = <<>> THEN <<>>
    ELSE IF Len(parts) = 1 THEN parts[1]
    ELSE parts[1] \o sep \o Join(Tail(parts), sep)

\* dict[k] = v
Put(d, k, v) == [x \in (DOMAIN d) \cup {k} |-> IF x = k THEN v ELSE d[x]]

EmptyDict == [x \in {} |-> <<>>]

----------------------------------------------------------------------------
(* config.py *)

\* config.py:4
DEFAULT_MODEL == "gpt-5.2"

\* config.py:5
FALLBACK_MODELS == <<"gpt-4o", "gpt-4o-mini", "gpt-4.1">>

\* config.py:8
DEFAULT_GEMINI_MODEL == "gemini-2.5-pro"

\* config.py:9
GEMINI_FALLBACK_MODELS == <<"gemini-2.0-flash", "gemini-1.5-pro">>

\* config.py:12-15
PROVIDER_DEFAULTS ==
    [openai |-> [model |-> DEFAULT_MODEL, column |-> "meanings_openai"],
     gemini |-> [model |-> DEFAULT_GEMINI_MODEL, column |-> "meanings_gemini"]]

Providers == DOMAIN PROVIDER_DEFAULTS

\* the keys of PROMPTS (config.py:22-67)
Prompts == {"generic", "false-positive"}

----------------------------------------------------------------------------
(* Values *)

\* Python's None where a text value is expected
None == <<"None">>

\* model name stored in a checkpoint that was never saved
NoModel == "None"

\* a file that does not exist
NoFile == [exists |-> FALSE]

----------------------------------------------------------------------------
(* enrich_airport_codes.py: pure helpers *)

\* one abbreviation entry: the text after the first ": ", if there is one
StripDomain(s) ==
    LET i == Find(s, <<":", " ">>)
    IN  IF i > 0 THEN SubSeq(s, i + 2, Len(s)) ELSE s

RECURSIVE AppendAbbreviations(_, _)
AppendAbbreviations(values, abbrs) ==
    IF abbrs = <<>> THEN values
    ELSE LET s == StripDomain(Head(abbrs))
         IN  AppendAbbreviations(
                 IF s # <<>> /\ s \notin Range(values) THEN Append(values, s) ELSE values,
                 Tail(abbrs))

\* _to_semicolon_separated(data) for a dict data = {word, abbreviations}
\* (a missing or null "abbreviations" is the empty list; the empty dict
\* renders like {word: null, abbreviations: []})
_to_semicolon_separated(data) ==
    LET values == IF data.word # None /\ data.word # <<>> THEN <<data.word>> ELSE <<>>
    IN  Join(AppendAbbreviations(values, data.abbreviations), <<";", " ">>)

\* row.get("code", "")
RowCode(row) == IF "code" \in DOMAIN row THEN row["code"] ELSE <<>>

RECURSIVE CodesLoop(_, _, _, _)
CodesLoop(rows, results, seen, codes) ==
    IF rows = <<>> THEN codes
    ELSE LET code == Upper(Strip(RowCode(Head(rows))))
         IN  IF code = <<>> \/ code \in DOMAIN results \/ code \in seen
             THEN CodesLoop(Tail(rows), results, seen, codes)
             ELSE CodesLoop(Tail(rows), results, seen \cup {code}, Append(codes, code))

\* the same loop taken 16 rows at a time, which keeps its evaluation shallow on
\* a long input: seen is the set of the codes found so far
RECURSIVE CodesLoopByChunks(_, _, _)
CodesLoopByChunks(rows, results, codes) ==
    IF Len(rows) <= 16 THEN CodesLoop(rows, results, Range(codes), codes)
    ELSE CodesLoopByChunks(SubSeq(rows, 17, Len(rows)), results,
                           CodesLoop(SubSeq(rows, 1, 16), results, Range(codes), codes))

\* a variant that forgets the checkpoint: every code of the input is pending
get_codes_to_process_ignoring_results(rows, results) ==
    CodesLoop(rows, EmptyDict, {}, <<>>)

\* a variant that compares the code as written, before strip().upper()
RECURSIVE CodesLoopRaw(_, _, _, _)
CodesLoopRaw(rows, results, seen, codes) ==
    IF rows = <<>> THEN codes
    ELSE LET raw == RowCode(Head(rows))
             code == Upper(Strip(raw))
         IN  IF code = <<>> \/ code \in DOMAIN results \/ raw \in seen
             THEN CodesLoopRaw(Tail(rows), results, seen, codes)
             ELSE CodesLoopRaw(Tail(rows), results, seen \cup {raw}, Append(codes, code))

get_codes_to_process_raw_seen(rows, results) == CodesLoopRaw(rows, results, {}, <<>>)

\* a variant for which a code recorded with the empty string is still pending
get_codes_to_process_requerying_empty(rows, results) ==
    CodesLoop(rows, [k \in { x \in DOMAIN results : results[x] # <<>> } |-> results[k]],
              {}, <<>>)

get_codes_to_process(rows, results) == CodesLoopByChunks(rows, results, <<>>)

\* prompt_name.replace("-", "_") on the names of Prompts
PromptSuffix(prompt_name) ==
    CASE prompt_name = "false-positive" -> "false_positive"
      [] OTHER -> prompt_name

\* _make_column_and_key(provider, prompt_name) = <<column, checkpoint key>>
_make_column_and_key(provider, prompt_name) ==
    LET base == PROVIDER_DEFAULTS[provider].column
    IN  IF prompt_name = "generic" THEN <<base, provider>>
        ELSE <<base \o "_" \o PromptSuffix(prompt_name),
               provider \o "_" \o PromptSuffix(prompt_name)>>

\* every annotation column a run of the model can name, in Python's string order
ColumnOrder ==
    <<"meanings_gemini", "meanings_gemini_false_positive",
      "meanings_openai", "meanings_openai_false_positive">>

\* key.startswith("meanings_")
IsMeaningsColumn(col) == col \in Range(ColumnOrder)

\* sorted(cols)
SortedColumns(cols) == SelectSeq(ColumnOrder, LAMBDA c : c \in cols)

\* _load_existing_output(output_path): stripped code -> last row with that code
_load_existing_output(file) ==
    IF ~file.exists THEN EmptyDict
    ELSE LET keys == { Strip(RowCode(file.rows[i])) : i \in 1..Len(file.rows) }
             last(k) == CHOOSE i \in 1..Len(file.rows) :
                            /\ Strip(RowCode(file.rows[i])) = k
                            /\ \A j \in 1..Len(file.rows) :
                                   Strip(RowCode(file.rows[j])) = k => j <= i
         IN  [k \in keys |-> file.rows[last(k)]]

\* next(iter(existing.values()), {}): the value of the first key inserted
ExistingSample(file) == _load_existing_output(file)[Strip(RowCode(file.rows[1]))]

\* json.loads(raw) succeeds on a cell text (only "{}" among the model's texts)
JsonValid(raw) == raw = <<"{", "}">>

\* the value written into the target column for one row (lines 163-169)
TargetValue(results, code_upper) ==
    LET raw == IF code_upper \in DOMAIN results THEN results[code_upper] ELSE <<>>
    IN  IF StartsWith(raw, <<"{">>)
        THEN IF JsonValid(raw)
             THEN _to_semicolon_separated([word |-> None, abbreviations |-> <<>>])
             ELSE raw
        ELSE raw

\* known_cols of _write_output (lines 139-147)
KnownCols(file, column) ==
    LET existing == _load_existing_output(file)
    IN  { PROVIDER_DEFAULTS[p].column : p \in Providers }
        \cup (IF DOMAIN existing # {}
              THEN { k \in DOMAIN ExistingSample(file) : IsMeaningsColumn(k) }
              ELSE {})
        \cup {column}

\* a variant that sets the target column and copies nothing from the prior output
MergeRowWithoutCopy(row, existing, known_cols, results, column) ==
    [c \in (DOMAIN row) \cup {column} |->
        IF c = column THEN TargetValue(results, Upper(Strip(RowCode(row)))) ELSE row[c]]

\* one row after the loop body of lines 154-169
MergeRow(row, existing, known_cols, results, column) ==
    LET code == Strip(RowCode(row))
        code_upper == Upper(code)
        copied == IF code \in DOMAIN existing
                  THEN { col \in known_cols : col # column /\ col \in DOMAIN existing[code] }
                  ELSE {}
    IN  [c \in (DOMAIN row) \cup copied \cup {column} |->
            IF c = column THEN TargetValue(results, code_upper)
            ELSE IF c \in copied THEN existing[code][c]
            ELSE row[c]]

\* csv.DictWriter(fieldnames, extrasaction="ignore").writerows(rows)
CsvRows(rows, fieldnames) ==
    [i \in 1..Len(rows) |->
        [c \in Range(fieldnames) |-> IF c \in DOMAIN rows[i] THEN rows[i][c] ELSE <<>>]]

\* _write_output(rows, base_fieldnames, results, column, output_path):
\* the rows as mutated in memory and the file as written
_write_output(rows, base_fieldnames, results, column, file) ==
    LET existing == _load_existing_output(file)
        known_cols == KnownCols(file, column)
        fieldnames == base_fieldnames
                      \o SelectSeq(SortedColumns(known_cols),
                                   LAMBDA c : c \notin Range(base_fieldnames))
        newrows == [i \in 1..Len(rows) |->
                       MergeRow(rows[i], existing, known_cols, results, column)]
    IN  [rows |-> newrows,
         file |-> [exists |-> TRUE, fieldnames |-> fieldnames,
                   rows |-> CsvRows(newrows, fieldnames)]]

----------------------------------------------------------------------------
(* checkpoint.py *)

EmptyCheckpoint == [results |-> EmptyDict, model |-> NoModel]

\* a variant that returns the entry of another key when the file has none for key
load_checkpoint_any_key(file, key) ==
    IF ~file.exists THEN EmptyCheckpoint
    ELSE IF key \in DOMAIN file.data THEN file.data[key]
    ELSE IF DOMAIN file.data # {} THEN file.data[CHOOSE k \in DOMAIN file.data : TRUE]
    ELSE EmptyCheckpoint

\* a variant that never finds a persisted checkpoint
load_checkpoint_forgetting(file, key) == EmptyCheckpoint

\* load_checkpoint(provider) on the checkpoint file
load_checkpoint(file, key) ==
    IF ~file.exists THEN EmptyCheckpoint
    ELSE IF key \in DOMAIN file.data THEN file.data[key] ELSE EmptyCheckpoint

\* a variant that writes a file holding the saved key only
save_checkpoint_overwriting(file, key, checkpoint) ==
    [exists |-> TRUE, data |-> Put([k \in {} |-> EmptyCheckpoint], key, checkpoint)]

\* save_checkpoint(provider, checkpoint): the checkpoint file after the save
save_checkpoint(file, key, checkpoint) ==
    LET data == IF file.exists THEN file.data ELSE [k \in {} |-> EmptyCheckpoint]
    IN  [exists |-> TRUE, data |-> Put(data, key, checkpoint)]

----------------------------------------------------------------------------
(* compare_meanings.py *)

\* str.lower() on the characters the model uses
LowerChar(c) ==
    CASE c = "A" -> "a"
      [] c = "B" -> "b"
      [] c = "C" -> "c"
      [] c = "W" -> "w"
      [] c = "X" -> "x"
      [] OTHER -> c

Lower(s) == [i \in 1..Len(s) |-> LowerChar(s[i])]

\* s.split(sep) for a separator of one character
RECURSIVE Split(_, _)
Split(s, sep) ==
    LET i == Find(s, <<sep>>)
    IN  IF i = 0 THEN <<s>>
        ELSE <<SubSeq(s, 1, i - 1)>> \o Split(SubSeq(s, i + 1, Len(s)), sep)

\* _parse_meanings(cell), lines 16-20
_parse_meanings(cell) ==
    IF cell = <<>> \/ Strip(cell) = <<>> THEN <<>>
    ELSE LET parts == Split(cell, ";")
             kept == SelectSeq(parts, LAMBDA m : Strip(m) # <<>>)
         IN  [i \in 1..Len(kept) |-> Strip(kept[i])]

\* _normalize(meaning), lines 23-29
_normalize(meaning) ==
    LET s == Strip(Lower(meaning))
    IN  IF "(" \in Range(s)
        THEN Strip(SubSeq(s, 1, Find(s, <<"(">>) - 1))
        ELSE s

\* _detect_columns(fieldnames), line 33
_detect_columns(fieldnames) ==
    SortedColumns({ c \in Range(fieldnames) : IsMeaningsColumn(c) })

\* row.get(col, "")
Cell(row, col) == IF col \in DOMAIN row THEN row[col] ELSE <<>>

\* col_codes, col_counts and code_meanings before the loop of line 49
NoCoverage(columns) ==
    [col_codes |-> [c \in Range(columns) |-> {}],
     col_counts |-> [c \in Range(columns) |-> <<>>],
     code_meanings |-> [x \in {} |-> EmptyDict],
     code_order |-> <<>>]

\* lines 52-56 for one row and one column
CoverCell(acc, code, col, cell) ==
    LET meanings == _parse_meanings(cell)
        of_code == IF code \in DOMAIN acc.code_meanings
                   THEN acc.code_meanings[code] ELSE EmptyDict
    IN  IF meanings = <<>> THEN acc
        ELSE [col_codes |-> [acc.col_codes EXCEPT ![col] = @ \cup {code}],
              col_counts |-> [acc.col_counts EXCEPT ![col] = Append(@, Len(meanings))],
              code_meanings |-> Put(acc.code_meanings, code, Put(of_code, col, meanings)),
              \* a dict keeps its keys in the order of their first insertion
              code_order |-> IF code \in DOMAIN acc.code_meanings THEN acc.code_order
                             ELSE Append(acc.code_order, code)]

\* line 51, the loop over the columns for one row
RECURSIVE CoverRow(_, _, _, _)
CoverRow(acc, code, row, columns) ==
    IF columns = <<>> THEN acc
    ELSE CoverRow(CoverCell(acc, code, Head(columns), Cell(row, Head(columns))),
                  code, row, Tail(columns))

\* lines 49-56, the loop over the rows
RECURSIVE Coverage(_, _, _)
Coverage(acc, rows, columns) ==
    IF rows = <<>> THEN acc
    ELSE Coverage(CoverRow(acc, Upper(Strip(RowCode(Head(rows)))), Head(rows), columns),
                  Tail(rows), columns)

\* itertools.combinations(columns, 2)
Combinations2(columns) ==
    LET n == Len(columns)
        pairs == { <<i, j>> \in (1..n) \X (1..n) : i < j }
        \* the position of the pair (i, j) in the enumeration
        rank(p) == Cardinality({ q \in pairs : q[1] < p[1] \/ (q[1] = p[1] /\ q[2] < p[2]) }) + 1
    IN  [k \in 1..Cardinality(pairs) |->
            LET p == CHOOSE q \in pairs : rank(q) = k
            IN  <<columns[p[1]], columns[p[2]]>>]

\* a quotient n / d as Python computes it, kept as a fraction; 0 is 0 / 1
Zero == [num |-> 0, den |-> 1]

Quotient(n, d) == [num |-> n, den |-> d]

\* a variant that divides by |A| + |B|
PairwiseEntryOverSum(cov, a, b) ==
    LET sa == cov.col_codes[a]
        sb == cov.col_codes[b]
        both == sa \cap sb
    IN  [a |-> a, b |-> b,
         both |-> Cardinality(both),
         only_a |-> Cardinality(sa \ sb),
         only_b |-> Cardinality(sb \ sa),
         jaccard |-> IF sa \cup sb # {}
                     THEN Quotient(Cardinality(both), Cardinality(sa) + Cardinality(sb))
                     ELSE Zero]

\* lines 76-86: the entry of `pairwise` for the columns a and b
PairwiseEntry(cov, a, b) ==
    LET sa == cov.col_codes[a]
        sb == cov.col_codes[b]
        both == sa \cap sb
    IN  [a |-> a, b |-> b,
         both |-> Cardinality(both),
         only_a |-> Cardinality(sa \ sb),
         only_b |-> Cardinality(sb \ sa),
         jaccard |-> IF sa \cup sb # {}
                     THEN Quotient(Cardinality(both), Cardinality(sa \cup sb))
                     ELSE Zero]

\* code_meanings[code].get(col, [])
MeaningsOf(cov, code, col) ==
    IF code \in DOMAIN cov.code_meanings /\ col \in DOMAIN cov.code_meanings[code]
    THEN cov.code_meanings[code][col]
    ELSE <<>>

\* lines 111-127: the entry of `agreement` for the columns a and b
AgreementEntry(cov, a, b) ==
    LET shared_codes == cov.col_codes[a] \cap cov.col_codes[b]
        tokens(code, col) == { _normalize(m) : m \in Range(MeaningsOf(cov, code, col)) }
        agree == Cardinality({ code \in shared_codes :
                                   tokens(code, a) \cap tokens(code, b) # {} })
    IN  IF shared_codes = {}
        THEN [a |-> a, b |-> b, shared_codes |-> 0, agree_count |-> 0, agree_pct |-> Zero]
        ELSE [a |-> a, b |-> b,
              shared_codes |-> Cardinality(shared_codes),
              agree_count |-> agree,
              agree_pct |-> Quotient(agree * 100, Cardinality(shared_codes))]

\* sum(counts)
RECURSIVE Sum(_)
Sum(counts) == IF counts = <<>> THEN 0 ELSE Head(counts) + Sum(Tail(counts))

\* min(counts) and max(counts) of a list that is not empty
MinOf(counts) == CHOOSE x \in Range(counts) : \A y \in Range(counts) : x <= y

MaxOf(counts) == CHOOSE x \in Range(counts) : \A y \in Range(counts) : x >= y

\* lines 61-71: the entry of `per_column` for a column
PerColumnEntry(cov, col, total) ==
    LET codes == cov.col_codes[col]
        counts == cov.col_counts[col]
        n == Cardinality(codes)
    IN  [count |-> n,
         pct |-> IF total # 0 THEN Quotient(n * 100, total) ELSE Zero,
         avg |-> IF n # 0 THEN Quotient(Sum(counts), n) ELSE Zero,
         min |-> IF counts # <<>> THEN MinOf(counts) ELSE 0,
         max |-> IF counts # <<>> THEN MaxOf(counts) ELSE 0,
         total_meanings |-> Sum(counts)]

\* lines 89-106: any_set is the union of the columns' code sets, all_set their
\* intersection (the empty set when there is no column)
OverlapEntry(cov, columns, total) ==
    LET any_set == UNION { cov.col_codes[c] : c \in Range(columns) }
        all_set == { x \in any_set : \A c \in Range(columns) : x \in cov.col_codes[c] }
        pct(n) == IF total # 0 THEN Quotient(n * 100, total) ELSE Zero
    IN  [any |-> Cardinality(any_set),
         any_pct |-> pct(Cardinality(any_set)),
         all |-> Cardinality(all_set),
         all_pct |-> pct(Cardinality(all_set)),
         none |-> total - Cardinality(any_set),
         none_pct |-> pct(total - Cardinality(any_set))]

\* compare_meanings.py:135, the slice [:10]
TopN == 10

\* lines 130-134: code_distinct[code], the normalized meanings of the code
\* over the columns of code_meanings[code]
CodeDistinct(cov, code) ==
    { _normalize(m) :
          m \in UNION { Range(cov.code_meanings[code][c]) :
                            c \in DOMAIN cov.code_meanings[code] } }

\* line 135: sorted(code_distinct.items(), key=len of the set, reverse=True),
\* a stable sort: codes with equal keys keep the order of code_meanings
SortedCodes(cov) ==
    LET order == cov.code_order
        key(i) == Cardinality(CodeDistinct(cov, order[i]))
        pos(i) == 1 + Cardinality({ j \in 1..Len(order) :
                                      key(j) > key(i) \/ (key(j) = key(i) /\ j < i) })
    IN  [k \in 1..Len(order) |-> order[CHOOSE i \in 1..Len(order) : pos(i) = k]]

\* lines 135-141: top_codes_data; `meanings` holds entry[col] for each column
TopCodes(cov, columns) ==
    LET sorted == SortedCodes(cov)
        top == SubSeq(sorted, 1, IF Len(sorted) < TopN THEN Len(sorted) ELSE TopN)
    IN  [k \in 1..Len(top) |->
            [code |-> top[k],
             distinct |-> Cardinality(CodeDistinct(cov, top[k])),
             meanings |-> [c \in Range(columns) |-> MeaningsOf(cov, top[k], c)]]]

\* compute_stats(rows, columns), lines 41-151
compute_stats(rows, columns) ==
    LET cov == Coverage(NoCoverage(columns), rows, columns)
        pairs == Combinations2(columns)
    IN  [total |-> Len(rows),
         columns |-> columns,
         per_column |-> [c \in Range(columns) |-> PerColumnEntry(cov, c, Len(rows))],
         pairwise |-> [k \in 1..Len(pairs) |-> PairwiseEntry(cov, pairs[k][1], pairs[k][2])],
         overlap |-> OverlapEntry(cov, columns, Len(rows)),
         agreement |-> [k \in 1..Len(pairs) |-> AgreementEntry(cov, pairs[k][1], pairs[k][2])],
         top_codes |-> TopCodes(cov, columns)]

----------------------------------------------------------------------------
(* llm.py: failure classification *)

\* llm.py:69 and llm.py:106
max_retries == 5

\* An exception of a provider client: the phrases its message contains
\* (lower-cased) and its status_code attribute (0 when it has none).
Errors ==
    { [msg |-> {"429"},                status_code |-> 429],
      [msg |-> {"resource_exhausted"}, status_code |-> 0],
      [msg |-> {"model", "not found"}, status_code |-> 404],
      [msg |-> {"rate", "model"},      status_code |-> 400],
      [msg |-> {},                     status_code |-> 500] }

\* last_error = None
NoError == [msg |-> {}, status_code |-> -1]

\* RuntimeError("All ... models failed")
AllModelsFailed == [msg |-> {"all models failed"}, status_code |-> -2]

\* the throttling test of _call_openai (line 86) and _call_gemini (line 122)
IsRateLimited(provider, e) ==
    \/ "429" \in e.msg
    \/ "rate" \in e.msg
    \/ (provider = "gemini" /\ "resource_exhausted" \in e.msg)

\* _is_model_error(e)
_is_model_error(e) ==
    IF "429" \in e.msg \/ "rate" \in e.msg THEN FALSE
    ELSE IF e.status_code \in {404, 400} THEN TRUE
    ELSE e.msg \cap {"model", "does not exist", "invalid model", "not found", "not available"} # {}

\* 2**attempt
RECURSIVE Pow2(_)
Pow2(n) == IF n = 0 THEN 1 ELSE 2 * Pow2(n - 1)

----------------------------------------------------------------------------
(* llm.py: the call layer *)

\* the fallback list call_llm picks for a provider (lines 146-151)
Fallbacks(provider) ==
    IF provider = "openai" THEN FALLBACK_MODELS ELSE GEMINI_FALLBACK_MODELS

\* a variant that tries the fallback models last to first
ModelsToTryReversed(model, fallbacks) ==
    <<model>> \o SelectSeq([i \in 1..Len(fallbacks) |-> fallbacks[Len(fallbacks) + 1 - i]],
                           LAMBDA m : m # model)

\* models_to_try = [model] + [m for m in fallbacks if m != model]
ModelsToTry(model, fallbacks) == <<model>> \o SelectSeq(fallbacks, LAMBDA m : m # model)

\* The state of one invocation of _call_openai / _call_gemini:
\*   models  models_to_try            current  index of current_model
\*   attempt the loop variable        last_error
\*   status  "calling", "returned" or "raised"
\*   result, model_used  the returned pair     raised  the exception raised
\*   slept   the argument of the last time.sleep (0: none yet)
CallStart(model, fallbacks) ==
    [models |-> ModelsToTry(model, fallbacks), current |-> 1, attempt |-> 0,
     last_error |-> NoError, status |-> "calling", result |-> EmptyDict,
     model_used |-> NoModel, raised |-> NoError, slept |-> 0]

\* a variant that always raises the RuntimeError
RaiseRuntimeError(c) == [c EXCEPT !.status = "raised", !.raised = AllModelsFailed]

\* line 96 / 132: raise last_error or RuntimeError(...)
RaiseAfterLoop(c) ==
    [c EXCEPT !.status = "raised",
              !.raised = IF c.last_error # NoError THEN c.last_error ELSE AllModelsFailed]

\* the outer for loop moves on: the next candidate model, or the end of the list
NextModel(c) ==
    IF c.current < Len(c.models)
    THEN [c EXCEPT !.current = c.current + 1, !.attempt = 0]
    ELSE RaiseAfterLoop([c EXCEPT !.current = Len(c.models) + 1])

\* a variant whose attempt loop runs once more
ContinueOnceMore(c) ==
    IF c.attempt + 1 < max_retries + 1
    THEN [c EXCEPT !.attempt = c.attempt + 1]
    ELSE NextModel(c)

\* `continue` in the attempt loop: the next attempt, or the end of range(max_retries)
Continue(c) ==
    IF c.attempt + 1 < max_retries
    THEN [c EXCEPT !.attempt = c.attempt + 1]
    ELSE NextModel(c)

\* a variant that falls back to the next model when the parse retries are used up
OnParseFailureFallingBack(c) ==
    IF c.attempt < max_retries - 1
    THEN Continue([c EXCEPT !.slept = Pow2(c.attempt)])
    ELSE NextModel(c)

\* except json.JSONDecodeError (lines 78-83 / 114-119)
OnParseFailure(c) ==
    IF c.attempt < max_retries - 1
    THEN Continue([c EXCEPT !.slept = Pow2(c.attempt)])
    ELSE [c EXCEPT !.status = "returned", !.result = EmptyDict,
                   !.model_used = c.models[c.current]]

\* a variant that retries a model-unavailable failure on the same model
OnExceptionRetryingModelError(provider, c, e) ==
    LET c1 == [c EXCEPT !.last_error = e]
    IN  IF IsRateLimited(provider, e) \/ _is_model_error(e)
        THEN Continue([c1 EXCEPT !.slept = Pow2(c.attempt)])
        ELSE [c1 EXCEPT !.status = "raised", !.raised = e]

\* a variant that takes every failure that is not throttling as model-unavailable
OnExceptionFallingBack(provider, c, e) ==
    LET c1 == [c EXCEPT !.last_error = e]
    IN  IF IsRateLimited(provider, e)
        THEN Continue([c1 EXCEPT !.slept = Pow2(c.attempt)])
        ELSE NextModel(c1)

\* except Exception (lines 84-94 / 120-130)
OnException(provider, c, e) ==
    LET c1 == [c EXCEPT !.last_error = e]
    IN  IF IsRateLimited(provider, e)
        THEN Continue([c1 EXCEPT !.slept = Pow2(c.attempt)])
        ELSE IF _is_model_error(e)
        THEN NextModel(c1)
        ELSE [c1 EXCEPT !.status = "raised", !.raised = e]

\* line 77 / 113: the reply parsed, return (reply, current_model)
OnReply(c, reply) ==
    [c EXCEPT !.status = "returned", !.result = reply,
              !.model_used = c.models[c.current]]

\* one pass through the try statement, for the provider's answer `outcome`
Attempt(provider, c, outcome) ==
    CASE outcome.kind = "ok"    -> OnReply(c, outcome.reply)
      [] outcome.kind = "parse" -> OnParseFailure(c)
      [] outcome.kind = "error" -> OnException(provider, c, outcome.e)

----------------------------------------------------------------------------
(* Inputs *)

\* the cells of the input file's code column: lower case, trailing blank,
\* a second code, a blank cell
RawCodes == { <<"a">>, <<"A", " ">>, <<"b">>, <<" ">> }

RECURSIVE SeqsUpTo(_, _)
SeqsUpTo(S, n) ==
    IF n = 0 THEN { <<>> }
    ELSE LET shorter == SeqsUpTo(S, n - 1)
         IN  shorter \cup { Append(q, x) : q \in { r \in shorter : Len(r) = n - 1 }, x \in S }

\* the input file (as load_rows reads it) whose code column holds cs
InputFile(cs) ==
    [exists |-> TRUE, fieldnames |-> <<"code">>,
     rows |-> [i \in 1..Len(cs) |-> [c \in {"code"} |-> cs[i]]]]

InputFiles == { InputFile(cs) : cs \in SeqsUpTo(RawCodes, MaxRows) }

\* --batch-size
BatchSizes == 1..MaxRows

\* --model / LLM_MODEL / the provider default (line 188): the default, or a
\* model that is also in the provider's fallback list
ModelChoices(p) == { PROVIDER_DEFAULTS[p].model, Fallbacks(p)[1] }

\* --provider and --prompt of the successive invocations
Invocations ==
    { <<"openai", "generic">>, <<"gemini", "generic">>, <<"gemini", "false-positive">> }

\* what a reply holds for a code it covers: the annotation object
\* {"word": "w", "abbreviations": ["x: w", "x: b"]}
ReplyEntries ==
    { [t |-> "dict", word |-> <<"w">>,
       abbreviations |-> << <<"x", ":", " ", "w">>, <<"x", ":", " ", "b">> >>] }

\* batch_results.get(k): the entry, or None
Absent == [t |-> "none"]

Get(d, k) == IF k \in DOMAIN d THEN d[k] ELSE Absent

\* Python truthiness of a reply entry
Truthy(x) == x.t = "dict" \/ (x.t = "str" /\ x.s # <<>>)

\* the parsed replies a provider can give for a batch: any subset of its codes
Replies(batch) == UNION { [S -> ReplyEntries] : S \in SUBSET Range(batch) }

\* the answers of the provider to one request
Outcomes(batch) ==
    { [kind |-> "ok", reply |-> r] : r \in Replies(batch) }
    \cup { [kind |-> "parse"] }
    \cup { [kind |-> "error", e |-> e] : e \in Errors }

----------------------------------------------------------------------------
(* llm.py: call_llm as a whole *)

\* stands for the parsed reply while the ends of an invocation are computed
SomeReply == [x \in {None} |-> Absent]

\* what the caller of call_llm sees when the invocation is over
CallEnd(c) ==
    [status |-> c.status, result |-> c.result, model_used |-> c.model_used,
     raised |-> c.raised]

\* every state one request after a state of `frontier`
AfterOneRequest(p, frontier) ==
    { Attempt(p, c, o) : c \in frontier,
                         o \in { [kind |-> "ok", reply |-> SomeReply], [kind |-> "parse"] }
                               \cup { [kind |-> "error", e |-> e] : e \in Errors } }

\* the ends of the invocations that begin in `frontier`, whatever the provider answers
RECURSIVE CallEndsFrom(_, _)
CallEndsFrom(p, frontier) ==
    IF frontier = {} THEN {}
    ELSE LET after == AfterOneRequest(p, frontier)
         IN  { CallEnd(c) : c \in { x \in after : x.status # "calling" } }
             \cup CallEndsFrom(p, { x \in after : x.status = "calling" })

\* the models a run can pass to call_llm: its --model, or a model an earlier
\* batch fell back to
ModelsOf(p) == ModelChoices(p) \cup Range(Fallbacks(p))

\* call_llm(client, codes, model, provider): its possible ends
CallEnds ==
    [p \in Providers |->
        [m \in ModelsOf(p) |-> CallEndsFrom(p, { CallStart(m, Fallbacks(p)) })]]

----------------------------------------------------------------------------
(* State *)

VARIABLES
    inFile,            \* the input CSV
    ckptFile,          \* enrichment_checkpoint.json
    outFile,           \* the enriched CSV
    runs,              \* invocations of the command so far
    pc,                \* position of the running command in run()
    provider, prompt_name, model, batch_size,       \* arguments of run()
    results, checkpoint_model,                      \* the in-memory checkpoint
    rows, codes_to_process, b, effective_model, batch_results,
    call,              \* the invocation of the call layer in progress
    raised,            \* the exception that ended the run (NoError: none)
    loaded,            \* history: checkpoint results as loaded at line 92
    prior_out,         \* history: the output file as it was when the run began
    saves, writes,     \* history: save_checkpoint / _write_output calls of this run
    lastCall,          \* history: the last provider request and its answer
    tried,             \* history: models requested in this invocation of the call layer
    abandoned,         \* history: models answered model-unavailable in this invocation
    off_scenario,      \* history: an answer of this run left the scenario "primary
                       \*   model unavailable, first fallback answers" (see Scenario)
    others_called,     \* history: this run requested a model other than those two
    fallbacks,         \* the fallbacks argument of call_llm (None: not given)
    requests,          \* history: per model, the provider requests of this
                       \*   invocation of the call layer that named it
    primary_calls,     \* history: provider requests of this run that named
                       \*   `model`, counted up to max_retries + 1
    api_keys,          \* environment: the providers whose credential is set
    issued,            \* history: the batches this run handed to the call layer
    prior_ckpt,        \* history: the checkpoint file as it was when the run began
    previous,          \* history: the key of the invocation before this one, and
                       \*   how it ended
    stored,            \* history: per key, the checkpoint last saved under it
    stored_key,        \* history: the key of the last save_checkpoint
    stats              \* what compute_stats returned to the report command

files == <<inFile, ckptFile, outFile>>
args == <<provider, prompt_name, model, batch_size>>
locals == <<results, checkpoint_model, rows, codes_to_process, b, effective_model, batch_results>>
run_history == <<loaded, prior_out, saves, writes>>
call_history == <<lastCall, tried, abandoned, off_scenario, others_called, primary_calls,
                  requests, fallbacks>>
run_start == <<prior_ckpt, previous>>
store_history == <<stored, stored_key>>
vars == <<files, runs, pc, args, locals, call, raised, run_history, call_history,
          api_keys, stats, issued, run_start, store_history>>

column == _make_column_and_key(provider, prompt_name)[1]
checkpoint_key == _make_column_and_key(provider, prompt_name)[2]
base_fieldnames == inFile.fieldnames

Min(x, y) == IF x <= y THEN x ELSE y

Max(x, y) == IF x >= y THEN x ELSE y

\* a variant whose slice begins one code early
BatchOverlapping == SubSeq(codes_to_process, Max(b, 1), Min(b + batch_size, Len(codes_to_process)))

\* batch = codes_to_process[b : b + batch_size]
Batch == SubSeq(codes_to_process, b + 1, Min(b + batch_size, Len(codes_to_process)))

\* no invocation of the call layer is in progress
NoInvocation ==
    [models |-> <<>>, current |-> 0, attempt |-> 0, last_error |-> NoError,
     status |-> "none", result |-> EmptyDict, model_used |-> NoModel,
     raised |-> NoError, slept |-> 0]

NoCall == [model |-> NoModel, attempt |-> -1, outcome |-> [kind |-> "none"]]

\* the report command has not computed its statistics
NoStats == [total |-> -1]

\* no key: nothing was saved yet, no invocation came before
NoKey == ""

\* call_llm lines 147 / 150: fb = fallbacks if fallbacks is not None else the
\* provider's list
fb == IF fallbacks # None THEN fallbacks ELSE Fallbacks(provider)

\* no request was made yet
NoRequests == [m \in {} |-> 0]

\* the requests that named the model m
Requested(reqs, m) == IF m \in DOMAIN reqs THEN reqs[m] ELSE 0

NoPrevious == [key |-> NoKey, end |-> "idle"]

\* how the call layer of provider p classifies an answer
AnswerClass(p, outcome) ==
    CASE outcome.kind = "ok" -> "ok"
      [] outcome.kind = "parse" -> "parse"
      [] outcome.kind = "error" ->
            IF IsRateLimited(p, outcome.e) THEN "throttle"
            ELSE IF _is_model_error(outcome.e) THEN "unavailable"
            ELSE "fatal"
      [] OTHER -> "none"

\* the scenario of a run whose primary model is unavailable and whose first
\* fallback model answers: what an answer to model m must be
Scenario(m, class) ==
    /\ m = model => class = "unavailable"
    /\ m = Fallbacks(provider)[1] => class = "ok"

Init ==
    /\ inFile \in InputFiles
    /\ ckptFile = NoFile
    /\ outFile = NoFile
    /\ runs = 0
    /\ pc = "idle"
    /\ provider = "openai" /\ prompt_name = "generic"
    /\ model = DEFAULT_MODEL /\ batch_size = 1
    /\ results = EmptyDict /\ checkpoint_model = NoModel
    /\ rows = <<>> /\ codes_to_process = <<>> /\ b = 0
    /\ effective_model = DEFAULT_MODEL /\ batch_results = EmptyDict
    /\ call = NoInvocation /\ raised = NoError
    /\ loaded = EmptyDict /\ prior_out = NoFile /\ saves = 0 /\ writes = 0
    /\ lastCall = NoCall /\ tried = {} /\ abandoned = {}
    /\ off_scenario = FALSE /\ others_called = FALSE /\ primary_calls = 0
    /\ requests = NoRequests
    /\ fallbacks = None
    /\ api_keys = Providers
    /\ stats = NoStats
    /\ issued = <<>> /\ prior_ckpt = NoFile /\ previous = NoPrevious
    /\ stored = EmptyDict /\ stored_key = NoKey

\* the command is not running
Stopped == pc \in {"idle", "done", "failed", "exit1", "killed"}

\* a variant that does not look at the credential
ConfigOkWithoutCredential(p) == inFile.exists

\* main() lines 191-194 and get_client (run() line 91): the input file exists
\* and the credential of the provider is set
ConfigOk(p) == inFile.exists /\ p \in api_keys

\* main() -> run(), lines 90-99: a new invocation of the command
StartRun(p, pn, m, bs) ==
    /\ Stopped
    /\ ConfigOk(p)
    /\ runs' = runs + 1
    /\ provider' = p /\ prompt_name' = pn /\ model' = m /\ batch_size' = bs
    /\ LET checkpoint == load_checkpoint(ckptFile, _make_column_and_key(p, pn)[2])
       IN  /\ results' = checkpoint.results
           /\ checkpoint_model' = checkpoint.model
           /\ loaded' = checkpoint.results
           /\ codes_to_process' = get_codes_to_process(inFile.rows, checkpoint.results)
    /\ rows' = inFile.rows
    /\ effective_model' = m
    /\ b' = 0
    /\ batch_results' = EmptyDict
    /\ call' = NoInvocation /\ raised' = NoError
    /\ prior_out' = outFile /\ saves' = 0 /\ writes' = 0
    /\ lastCall' = NoCall /\ tried' = {} /\ abandoned' = {}
    /\ off_scenario' = FALSE /\ others_called' = FALSE /\ primary_calls' = 0
    /\ requests' = NoRequests
    /\ fallbacks' = None
    /\ issued' = <<>> /\ prior_ckpt' = ckptFile
    /\ previous' = [key |-> checkpoint_key, end |-> pc]
    /\ pc' = "loop"
    /\ UNCHANGED <<files, api_keys, stats, store_history>>

\* line 101: the head of the batch loop
LoopHead ==
    /\ pc = "loop"
    /\ pc' = IF b < Len(codes_to_process) THEN "call" ELSE "done"
    /\ UNCHANGED <<files, runs, args, locals, call, raised, run_history, call_history,
                   api_keys, stats, issued, run_start, store_history>>

\* line 107, call_llm taken as one step: it returns or raises
CallLLM ==
    /\ pc = "call"
    /\ \E end \in CallEnds[provider][effective_model] :
          IF end.status = "returned"
          THEN /\ \E reply \in (IF end.result = SomeReply THEN Replies(Batch)
                                ELSE {end.result}) :
                     batch_results' = reply
               /\ effective_model' = end.model_used
               /\ pc' = "merge"
               /\ UNCHANGED raised
          ELSE /\ raised' = end.raised
               /\ pc' = "failed"
               /\ UNCHANGED <<batch_results, effective_model>>
    /\ issued' = Append(issued, Batch)
    /\ UNCHANGED <<files, runs, args, results, checkpoint_model, rows,
                   codes_to_process, b, call, run_history, call_history,
                   api_keys, stats, run_start, store_history>>

\* line 107, entering call_llm -> _call_openai / _call_gemini (lines 63-66)
EnterCall ==
    /\ pc = "call"
    /\ call = NoInvocation
    /\ call' = CallStart(effective_model, fb)
    /\ lastCall' = NoCall /\ tried' = {} /\ abandoned' = {}
    /\ issued' = Append(issued, Batch)
    /\ requests' = NoRequests
    /\ UNCHANGED <<files, runs, pc, args, locals, raised, run_history,
                   off_scenario, others_called, primary_calls, fallbacks,
                   api_keys, stats, run_start, store_history>>

\* one request to the provider inside _call_openai / _call_gemini and the
\* handling of its answer; on the last one, the return to line 107 or the raise
ProviderCall ==
    /\ pc = "call"
    /\ call.status = "calling"
    /\ \E outcome \in Outcomes(Batch) :
          LET current_model == call.models[call.current]
              c == Attempt(provider, call, outcome)
              class == AnswerClass(provider, outcome)
          IN  /\ call' = c
              /\ raised' = c.raised
              /\ pc' = CASE c.status = "calling" -> "call"
                         [] c.status = "returned" -> "merge"
                         [] c.status = "raised" -> "failed"
              /\ IF c.status = "returned"
                 THEN batch_results' = c.result /\ effective_model' = c.model_used
                 ELSE UNCHANGED <<batch_results, effective_model>>
              /\ lastCall' = [model |-> current_model, attempt |-> call.attempt,
                              outcome |-> IF outcome.kind = "ok" THEN [kind |-> "ok"]
                                          ELSE outcome]
              /\ tried' = tried \cup {current_model}
              /\ abandoned' = IF class = "unavailable" THEN abandoned \cup {current_model}
                              ELSE abandoned
              /\ off_scenario' = (off_scenario \/ ~Scenario(current_model, class))
              /\ others_called' =
                    (others_called \/ current_model \notin {model, Fallbacks(provider)[1]})
              /\ primary_calls' = IF current_model = model
                                  THEN Min(primary_calls + 1, max_retries + 1)
                                  ELSE primary_calls
              /\ requests' = Put(requests, current_model,
                                 Requested(requests, current_model) + 1)
    /\ UNCHANGED <<files, runs, args, results, checkpoint_model, rows,
                   codes_to_process, b, run_history, fallbacks,
                   api_keys, stats, issued, run_start, store_history>>

\* line 111-112: the value recorded for one code of the batch
MergeValue(reply, code) ==
    LET key == Upper(code)
        data == IF Truthy(Get(reply, code)) THEN Get(reply, code) ELSE Get(reply, key)
    IN  IF data.t = "dict" THEN _to_semicolon_separated(data)
        ELSE IF Truthy(data) THEN data.s
        ELSE <<>>

\* a variant that records a code only when the reply has a value for it
RECURSIVE MergeBatchSkippingEmpty(_, _, _)
MergeBatchSkippingEmpty(res, batch, reply) ==
    IF batch = <<>> THEN res
    ELSE MergeBatchSkippingEmpty(
             IF MergeValue(reply, Head(batch)) # <<>>
             THEN Put(res, Upper(Head(batch)), MergeValue(reply, Head(batch)))
             ELSE res,
             Tail(batch), reply)

\* a variant that keeps only the entries of the batch
MergeBatchReplacing(res, batch, reply) ==
    [k \in { Upper(c) : c \in Range(batch) } |->
        MergeValue(reply, CHOOSE c \in Range(batch) : Upper(c) = k)]

\* lines 109-113 over a batch
RECURSIVE MergeBatch(_, _, _)
MergeBatch(res, batch, reply) ==
    IF batch = <<>> THEN res
    ELSE MergeBatch(Put(res, Upper(Head(batch)), MergeValue(reply, Head(batch))),
                    Tail(batch), reply)

\* lines 109-117
Merge ==
    /\ pc = "merge"
    /\ results' = MergeBatch(results, Batch, batch_results)
    /\ checkpoint_model' = effective_model
    /\ call' = NoInvocation
    /\ lastCall' = NoCall /\ tried' = {} /\ abandoned' = {}
    /\ requests' = NoRequests
    /\ pc' = "save"
    /\ UNCHANGED <<files, runs, args, rows, codes_to_process, b, effective_model,
                   batch_results, raised, run_history, off_scenario, others_called,
                   primary_calls, fallbacks, api_keys, stats, issued, run_start,
                   store_history>>

\* line 118
Save ==
    /\ pc = "save"
    /\ ckptFile' = save_checkpoint(ckptFile, checkpoint_key,
                                   [results |-> results, model |-> checkpoint_model])
    /\ saves' = saves + 1
    /\ stored' = Put(stored, checkpoint_key,
                     [results |-> results, model |-> checkpoint_model])
    /\ stored_key' = checkpoint_key
    /\ pc' = "write"
    /\ UNCHANGED <<inFile, outFile, runs, args, locals, call, raised, loaded, prior_out,
                   writes, call_history, api_keys, stats, issued, run_start>>

\* line 121, and the step of the for loop
Write ==
    /\ pc = "write"
    /\ LET w == _write_output(rows, base_fieldnames, results, column, outFile)
       IN  /\ rows' = w.rows
           /\ outFile' = w.file
    /\ writes' = writes + 1
    /\ b' = b + batch_size
    /\ pc' = "loop"
    /\ UNCHANGED <<inFile, ckptFile, runs, args, results, checkpoint_model,
                   codes_to_process, effective_model, batch_results, call, raised,
                   loaded, prior_out, saves, call_history,
                   api_keys, stats, issued, run_start, store_history>>

\* Successive invocations of the command, call_llm taken as one step
Next ==
    \/ /\ runs < MaxRuns
       /\ \E inv \in Invocations, bs \in BatchSizes :
            StartRun(inv[1], inv[2], PROVIDER_DEFAULTS[inv[1]].model, bs)
    \/ LoopHead
    \/ CallLLM
    \/ Merge
    \/ Save
    \/ Write

Spec == Init /\ [][Next]_vars

\* the input files of SpecCalls: one code, two codes, one code twice
CallsInputs ==
    { InputFile(<< <<"a">> >>), InputFile(<< <<"a">>, <<"b">> >>),
      InputFile(<< <<"a">>, <<"A", " ">> >>) }

InitCalls == Init /\ inFile \in CallsInputs

\* One invocation of the command, the call layer taken request by request
NextCalls ==
    \/ /\ runs = 0
       /\ \E p \in Providers, bs \in BatchSizes :
            \E m \in ModelChoices(p) : StartRun(p, "generic", m, bs)
    \/ LoopHead
    \/ EnterCall
    \/ ProviderCall
    \/ Merge
    \/ Save
    \/ Write

SpecCalls == InitCalls /\ [][NextCalls]_vars

\* the same, where a request to the provider that is under way is answered:
\* the client call of line 72 / 109 returns or raises
SpecCallsFair == SpecCalls /\ WF_vars(ProviderCall)

----------------------------------------------------------------------------
(* One run over a long input *)

\* the largest number of rows of the long inputs
MaxPending == 66

Digits == <<"0", "1", "2", "3", "4", "5", "6", "7", "8", "9">>

\* the i-th code of a long input: a letter and two digits
NumberedCode(i) == <<"a", Digits[(i \div 10) + 1], Digits[(i % 10) + 1]>>

\* input files of n rows with n different codes
PendingCounts == {0, 1, 30, 60, 65, MaxPending}

LongInputs == { InputFile([i \in 1..n |-> NumberedCode(i)]) : n \in PendingCounts }

\* --batch-size for the long inputs
LongBatchSizes == {1, 7, 29, 30, 31}

InitBatches ==
    /\ inFile \in LongInputs
    /\ ckptFile = NoFile
    /\ outFile = NoFile
    /\ runs = 0
    /\ pc = "idle"
    /\ provider = "openai" /\ prompt_name = "generic"
    /\ model = DEFAULT_MODEL /\ batch_size = 1
    /\ results = EmptyDict /\ checkpoint_model = NoModel
    /\ rows = <<>> /\ codes_to_process = <<>> /\ b = 0
    /\ effective_model = DEFAULT_MODEL /\ batch_results = EmptyDict
    /\ call = NoInvocation /\ raised = NoError
    /\ loaded = EmptyDict /\ prior_out = NoFile /\ saves = 0 /\ writes = 0
    /\ lastCall = NoCall /\ tried = {} /\ abandoned = {}
    /\ off_scenario = FALSE /\ others_called = FALSE /\ primary_calls = 0
    /\ requests = NoRequests
    /\ fallbacks = None
    /\ api_keys = Providers
    /\ stats = NoStats
    /\ issued = <<>> /\ prior_ckpt = NoFile /\ previous = NoPrevious
    /\ stored = EmptyDict /\ stored_key = NoKey

\* line 107, call_llm taken as one step, the requested model answering every
\* code of the batch
CallLLMAnswered ==
    /\ pc = "call"
    /\ [status |-> "returned", result |-> SomeReply, model_used |-> effective_model,
        raised |-> NoError] \in CallEnds[provider][effective_model]
    /\ \E entry \in ReplyEntries : batch_results' = [c \in Range(Batch) |-> entry]
    /\ pc' = "merge"
    /\ issued' = Append(issued, Batch)
    /\ UNCHANGED <<files, runs, args, results, checkpoint_model, rows,
                   codes_to_process, b, effective_model, call, raised, run_history,
                   call_history, api_keys, stats, run_start, store_history>>

NextBatches ==
    \/ /\ runs = 0
       /\ \E bs \in LongBatchSizes : StartRun("openai", "generic", DEFAULT_MODEL, bs)
    \/ LoopHead
    \/ CallLLMAnswered
    \/ Merge
    \/ Save
    \/ Write

SpecBatches == InitBatches /\ [][NextBatches]_vars

----------------------------------------------------------------------------
(* The checkpoint store by itself *)

\* the keys the command saves under
CheckpointKeys == { _make_column_and_key(inv[1], inv[2])[2] : inv \in Invocations }

\* checkpoints a caller may save
SomeCheckpoints ==
    { [results |-> r, model |-> m] :
          r \in { EmptyDict,
                  Put(EmptyDict, <<"A">>, <<"w">>),
                  Put(Put(EmptyDict, <<"A">>, <<>>), <<"B">>, <<"w">>) },
          m \in { NoModel, DEFAULT_MODEL } }

InitStore == Init /\ inFile = InputFile(<< <<"a">> >>)

\* save_checkpoint(key, checkpoint), lines 19-29
SaveCheckpoint(key, checkpoint) ==
    /\ ckptFile' = save_checkpoint(ckptFile, key, checkpoint)
    /\ stored' = Put(stored, key, checkpoint)
    /\ stored_key' = key
    /\ UNCHANGED <<inFile, outFile, runs, pc, args, locals, call, raised, run_history,
                   call_history, api_keys, stats, issued, run_start>>

NextStore == \E key \in CheckpointKeys, checkpoint \in SomeCheckpoints :
                 SaveCheckpoint(key, checkpoint)

SpecStore == InitStore /\ [][NextStore]_vars

----------------------------------------------------------------------------
(* Invocations of the command in any environment *)

InitMain ==
    /\ inFile \in CallsInputs \cup {NoFile}
    /\ api_keys \in SUBSET Providers
    /\ stats = NoStats
    /\ ckptFile = NoFile
    /\ outFile = NoFile
    /\ runs = 0
    /\ pc = "idle"
    /\ provider = "openai" /\ prompt_name = "generic"
    /\ model = DEFAULT_MODEL /\ batch_size = 1
    /\ results = EmptyDict /\ checkpoint_model = NoModel
    /\ rows = <<>> /\ codes_to_process = <<>> /\ b = 0
    /\ effective_model = DEFAULT_MODEL /\ batch_results = EmptyDict
    /\ call = NoInvocation /\ raised = NoError
    /\ loaded = EmptyDict /\ prior_out = NoFile /\ saves = 0 /\ writes = 0
    /\ lastCall = NoCall /\ tried = {} /\ abandoned = {}
    /\ off_scenario = FALSE /\ others_called = FALSE /\ primary_calls = 0
    /\ requests = NoRequests
    /\ fallbacks = None
    /\ issued = <<>> /\ prior_ckpt = NoFile /\ previous = NoPrevious
    /\ stored = EmptyDict /\ stored_key = NoKey

\* main() lines 192-194, or run() line 91 -> get_client -> llm.py lines 15-17 /
\* 25-27: the input file is missing or the credential is unset, sys.exit(1)
ConfigError(p, pn, m, bs) ==
    /\ Stopped
    /\ ~ConfigOk(p)
    /\ runs' = runs + 1
    /\ provider' = p /\ prompt_name' = pn /\ model' = m /\ batch_size' = bs
    /\ raised' = NoError
    /\ loaded' = EmptyDict /\ prior_out' = outFile /\ saves' = 0 /\ writes' = 0
    /\ issued' = <<>> /\ prior_ckpt' = ckptFile
    /\ previous' = [key |-> checkpoint_key, end |-> pc]
    /\ pc' = "exit1"
    /\ UNCHANGED <<files, locals, call, call_history, api_keys, stats, store_history>>

NextMain ==
    \/ /\ runs < MaxRuns
       /\ \E inv \in Invocations, bs \in BatchSizes :
            \/ StartRun(inv[1], inv[2], PROVIDER_DEFAULTS[inv[1]].model, bs)
            \/ ConfigError(inv[1], inv[2], PROVIDER_DEFAULTS[inv[1]].model, bs)
    \/ LoopHead
    \/ CallLLM
    \/ Merge
    \/ Save
    \/ Write

SpecMain == InitMain /\ [][NextMain]_vars

----------------------------------------------------------------------------
(* The report command on an enriched CSV *)

\* the largest number of rows of the enriched CSVs with varied cells
MaxTableRows == 2

\* the rows of a CSV: a code and a cell for each column
TableRows(codes, columns, cells) ==
    { [f \in {"code"} \cup columns |-> IF f = "code" THEN c ELSE g[f]] :
          c \in codes, g \in [columns -> cells] }

Table(fieldnames, rs) == [exists |-> TRUE, fieldnames |-> fieldnames, rows |-> rs]

\* cells: empty, a meaning with a trailing parenthetical, the bare meaning, a
\* meaning with text after the parenthetical, two meanings, separators only
RichCells ==
    { <<>>,
      <<"A", " ", "(", "x", ")">>,
      <<"a">>,
      <<"a", " ", "(", "x", ")", " ", "b">>,
      <<"b", ";", " ", "a">>,
      <<" ", ";", " ">> }

\* two columns, three codes, a cell empty or one meaning
SimpleTables ==
    { Table(<<"code", "meanings_gemini", "meanings_openai">>, rs) :
          rs \in SeqsUpTo(TableRows({ <<"a">>, <<"b">>, <<"c">> },
                                    {"meanings_gemini", "meanings_openai"},
                                    { <<>>, <<"w">> }),
                          MaxTableRows + 1) }

\* two columns, one code written in two ways, varied cells, one row or two
RichTables ==
    LET R == TableRows({ <<"a">>, <<"A", " ">> },
                       {"meanings_gemini", "meanings_openai"}, RichCells)
    IN  { Table(<<"code", "meanings_openai", "meanings_gemini">>, rs) :
              rs \in { <<r>> : r \in R } \cup { <<r1, r2>> : r1 \in R, r2 \in R } }

\* three columns
WideTables ==
    { Table(<<"code", "meanings_gemini", "meanings_gemini_false_positive",
              "meanings_openai">>, rs) :
          rs \in SeqsUpTo(TableRows({ <<"a">>, <<"b">> },
                                    {"meanings_gemini", "meanings_gemini_false_positive",
                                     "meanings_openai"},
                                    { <<>>, <<"w">> }),
                          MaxTableRows) }

\* one column filled, more codes than the report ranks: every code has one
\* meaning, but the code of row `two` has two and the code of row `none` none
LongTables ==
    { Table(<<"code", "meanings_openai">>,
            [i \in 1..(TopN + 2) |->
                [code |-> NumberedCode(i),
                 meanings_openai |-> IF i = two THEN <<"w", ";", " ", "x">>
                                     ELSE IF i = none THEN <<>>
                                     ELSE <<"w">>]]) :
          two \in 1..(TopN + 2), none \in 0..(TopN + 2) }

\* two codes over three rows, so that a code is repeated; a cell is empty or
\* holds one or two meanings
RepeatTables ==
    LET R == TableRows({ <<"a">>, <<"c">> }, {"meanings_gemini", "meanings_openai"},
                       { <<>>, <<"a">>, <<"b", ";", " ", "a">> })
    IN  { Table(<<"code", "meanings_gemini", "meanings_openai">>, <<r1, r2, r3>>) :
              r1 \in R, r2 \in R, r3 \in R }

InitCompare ==
    /\ outFile \in SimpleTables \cup RichTables \cup WideTables \cup LongTables
                     \cup RepeatTables
    /\ inFile = NoFile
    /\ ckptFile = NoFile
    /\ runs = 0
    /\ pc = "idle"
    /\ provider = "openai" /\ prompt_name = "generic"
    /\ model = DEFAULT_MODEL /\ batch_size = 1
    /\ results = EmptyDict /\ checkpoint_model = NoModel
    /\ rows = <<>> /\ codes_to_process = <<>> /\ b = 0
    /\ effective_model = DEFAULT_MODEL /\ batch_results = EmptyDict
    /\ call = NoInvocation /\ raised = NoError
    /\ loaded = EmptyDict /\ prior_out = NoFile /\ saves = 0 /\ writes = 0
    /\ lastCall = NoCall /\ tried = {} /\ abandoned = {}
    /\ off_scenario = FALSE /\ others_called = FALSE /\ primary_calls = 0
    /\ requests = NoRequests
    /\ fallbacks = None
    /\ api_keys = Providers
    /\ stats = NoStats
    /\ issued = <<>> /\ prior_ckpt = NoFile /\ previous = NoPrevious
    /\ stored = EmptyDict /\ stored_key = NoKey

\* compare_meanings.main(), lines 281-293: read the CSV, detect the columns,
\* compute the statistics
Compare ==
    /\ stats = NoStats
    /\ outFile.exists
    /\ _detect_columns(outFile.fieldnames) # <<>>
    /\ stats' = compute_stats(outFile.rows, _detect_columns(outFile.fieldnames))
    /\ UNCHANGED <<files, runs, pc, args, locals, call, raised, run_history,
                   call_history, api_keys, issued, run_start, store_history>>

NextCompare == Compare

SpecCompare == InitCompare /\ [][NextCompare]_vars

----------------------------------------------------------------------------
(* Invocations of the command that may be terminated *)

InitCrash == Init /\ inFile \in CallsInputs

\* the process is terminated while run() is in its batch loop (lines 101-121)
Kill ==
    /\ pc \in {"loop", "call", "merge", "save", "write"}
    /\ pc' = "killed"
    /\ UNCHANGED <<files, runs, args, locals, call, raised, run_history, call_history,
                   api_keys, stats, issued, run_start, store_history>>

NextCrash ==
    \/ /\ runs < MaxRuns
       /\ \E inv \in Invocations, bs \in BatchSizes :
            StartRun(inv[1], inv[2], PROVIDER_DEFAULTS[inv[1]].model, bs)
    \/ LoopHead
    \/ CallLLM
    \/ Merge
    \/ Save
    \/ Write
    \/ Kill

SpecCrash == InitCrash /\ [][NextCrash]_vars

----------------------------------------------------------------------------
(* call_llm called with a fallback list of the caller's *)

\* the models a caller names: the provider's default and its first fallback
LayerModels(p) == { PROVIDER_DEFAULTS[p].model, Fallbacks(p)[1] }

\* the fallbacks argument: not given, or a list of up to two models
FallbackLists(p) == {None} \cup SeqsUpTo(LayerModels(p), 2)

\* call_llm(client, ["A"], model, provider, fallbacks) is about to be entered
InitLayer ==
    /\ inFile = InputFile(<< <<"a">> >>)
    /\ ckptFile = NoFile
    /\ outFile = NoFile
    /\ runs = 1
    /\ pc = "call"
    /\ provider \in Providers /\ prompt_name = "generic"
    /\ model \in LayerModels(provider) /\ batch_size = 1
    /\ fallbacks \in FallbackLists(provider)
    /\ results = EmptyDict /\ checkpoint_model = NoModel
    /\ rows = inFile.rows /\ codes_to_process = << <<"A">> >> /\ b = 0
    /\ effective_model = model /\ batch_results = EmptyDict
    /\ call = NoInvocation /\ raised = NoError
    /\ loaded = EmptyDict /\ prior_out = NoFile /\ saves = 0 /\ writes = 0
    /\ lastCall = NoCall /\ tried = {} /\ abandoned = {}
    /\ off_scenario = FALSE /\ others_called = FALSE /\ primary_calls = 0
    /\ requests = NoRequests
    /\ api_keys = Providers
    /\ stats = NoStats
    /\ issued = <<>> /\ prior_ckpt = NoFile /\ previous = NoPrevious
    /\ stored = EmptyDict /\ stored_key = NoKey

NextLayer ==
    \/ EnterCall
    \/ ProviderCall

SpecLayer == InitLayer /\ [][NextLayer]_vars

----------------------------------------------------------------------------
(* One batch of one code, from the return of call_llm at line 107, over the
   annotations a provider may reply *)

\* the "word" of an annotation: null, empty, a word, a word in braces
AnnotationWords == { None, <<>>, <<"w">>, <<"{", "}">> }

\* entries of "abbreviations": with a domain, without, with nothing after the
\* domain, with braces after it
AbbreviationTexts ==
    { <<"x", ":", " ", "w">>, <<"x", ":", " ", "b">>, <<"b">>, <<"x", ":", " ">>,
      <<"x", ":", " ", "{", "}">> }

Annotations ==
    { [t |-> "dict", word |-> w, abbreviations |-> abbrs] :
          w \in AnnotationWords, abbrs \in SeqsUpTo(AbbreviationTexts, 2) }

\* call_llm has returned a reply for the batch ["A"]: no entry for the code,
\* or an annotation
InitRender ==
    /\ inFile = InputFile(<< <<"a">> >>)
    /\ ckptFile = NoFile
    /\ outFile = NoFile
    /\ runs = 1
    /\ pc = "merge"
    /\ provider = "openai" /\ prompt_name = "generic"
    /\ model = DEFAULT_MODEL /\ batch_size = 1
    /\ results = EmptyDict /\ checkpoint_model = NoModel
    /\ rows = inFile.rows /\ codes_to_process = << <<"A">> >> /\ b = 0
    /\ effective_model = DEFAULT_MODEL
    /\ batch_results \in {EmptyDict} \cup { Put(EmptyDict, <<"A">>, d) : d \in Annotations }
    /\ call = NoInvocation /\ raised = NoError
    /\ loaded = EmptyDict /\ prior_out = NoFile /\ saves = 0 /\ writes = 0
    /\ lastCall = NoCall /\ tried = {} /\ abandoned = {}
    /\ off_scenario = FALSE /\ others_called = FALSE /\ primary_calls = 0
    /\ requests = NoRequests
    /\ fallbacks = None
    /\ api_keys = Providers
    /\ stats = NoStats
    /\ issued = << << <<"A">> >> >> /\ prior_ckpt = NoFile /\ previous = NoPrevious
    /\ stored = EmptyDict /\ stored_key = NoKey

NextRender ==
    \/ Merge
    \/ Save
    \/ Write
    \/ LoopHead

SpecRender == InitRender /\ [][NextRender]_vars

----------------------------------------------------------------------------
(* Properties of the orchestrator, checked under Spec *)

\* the code a row stands for: trimmed, upper case
CodeOf(row) == Upper(Strip(RowCode(row)))

\* results.get(code, "")
Lookup(d, k) == IF k \in DOMAIN d THEN d[k] ELSE <<>>

\* what load(key) returns for the key of the run in progress
Persisted == load_checkpoint(ckptFile, checkpoint_key)

InRun == pc \in {"loop", "call", "merge", "save", "write", "done", "failed"}

\* C1 -- Resume correctness: no code that is a key of the results mapping the
\* run loaded from the checkpoint is pending, so none is in the batch handed
\* to the call layer or in any later batch of the run.
C1_ResumeCorrectness ==
    InRun =>
        /\ \A i \in 1..Len(codes_to_process) : codes_to_process[i] \notin DOMAIN loaded
        /\ pc \in {"call", "merge"} => Range(Batch) \cap DOMAIN loaded = {}

\* a run that resumes: it loaded a result for a code of the input and is
\* handing a batch of the other codes to the call layer
C1_Witness ==
    /\ pc = "call"
    /\ Batch # <<>>
    /\ \E i \in 1..Len(inFile.rows) : CodeOf(inFile.rows[i]) \in DOMAIN loaded

\* C4 -- Order within a batch iteration: merge, then save, then write; at the
\* end of every iteration the persisted checkpoint holds every code of the
\* batches processed so far together with the model last used, and the output
\* file has one row per input row whose target column is the persisted result
\* of the row's code.
C4_BatchDurability ==
    /\ pc = "save" =>
          /\ saves = writes
          /\ \A c \in Range(Batch) : c \in DOMAIN results
    /\ pc = "write" =>
          /\ saves = writes + 1
          /\ \A c \in Range(Batch) : c \in DOMAIN Persisted.results
    /\ (pc = "loop" /\ b > 0) =>
          /\ saves = writes
          /\ \A i \in 1..Min(b, Len(codes_to_process)) :
                codes_to_process[i] \in DOMAIN Persisted.results
          /\ Persisted.results = results
          /\ Persisted.model = effective_model
          /\ outFile.exists
          /\ Len(outFile.rows) = Len(inFile.rows)
          /\ \A i \in 1..Len(inFile.rows) :
                /\ outFile.rows[i]["code"] = inFile.rows[i]["code"]
                /\ outFile.rows[i][column] =
                       Lookup(Persisted.results, CodeOf(inFile.rows[i]))

\* the end of a batch iteration with another batch to come, a value written
C4_Witness ==
    /\ pc = "loop" /\ b > 0 /\ b < Len(codes_to_process)
    /\ \E i \in 1..Len(outFile.rows) : outFile.rows[i][column] # <<>>

\* C5 -- De-duplication: no code is pending twice (the batches are disjoint
\* slices of the pending list, so a code is in at most one batch, once), the
\* pending codes are trimmed and upper case, and in every output the run has
\* written the rows of one code hold the same value in the target column.
C5_Deduplication ==
    InRun =>
        /\ \A i, j \in 1..Len(codes_to_process) :
              codes_to_process[i] = codes_to_process[j] => i = j
        /\ \A i \in 1..Len(codes_to_process) :
              codes_to_process[i] = Upper(Strip(codes_to_process[i]))
        /\ writes > 0 =>
              \A i, j \in 1..Len(outFile.rows) :
                  CodeOf(outFile.rows[i]) = CodeOf(outFile.rows[j])
                      => outFile.rows[i][column] = outFile.rows[j][column]

\* an output written for an input that spells one code in two ways, with a value
C5_Witness ==
    /\ writes > 0
    /\ \E i, j \in 1..Len(outFile.rows) :
          /\ RowCode(outFile.rows[i]) # RowCode(outFile.rows[j])
          /\ CodeOf(outFile.rows[i]) = CodeOf(outFile.rows[j])
          /\ outFile.rows[i][column] # <<>>

\* C6 -- Column preservation: every output a run writes keeps each annotation
\* column of the output file it found, other than its own target column, with
\* the value the prior file had in each row.
C6_ColumnPreservation ==
    (InRun /\ writes > 0 /\ prior_out.exists) =>
        /\ Len(outFile.rows) = Len(prior_out.rows)
        /\ \A col \in Range(prior_out.fieldnames) :
              (IsMeaningsColumn(col) /\ col # column) =>
                  /\ col \in Range(outFile.fieldnames)
                  /\ \A i \in 1..Len(prior_out.rows) :
                        outFile.rows[i][col] = prior_out.rows[i][col]

\* a gemini run has written over the output of an openai run that found a
\* meaning, and has found one itself
C6_Witness ==
    /\ InRun /\ writes > 0 /\ prior_out.exists
    /\ provider = "gemini" /\ prompt_name = "generic"
    /\ \E i \in 1..Len(prior_out.rows) :
          /\ prior_out.rows[i]["meanings_openai"] # <<>>
          /\ outFile.rows[i]["meanings_openai"] # <<>>
          /\ outFile.rows[i]["meanings_gemini"] # <<>>

----------------------------------------------------------------------------
(* Properties of the call layer, checked under SpecCalls *)

\* the provider has answered a request of the invocation in progress (or just
\* ended), and nothing has happened since
Answered == lastCall # NoCall

\* how the call layer classifies the last answer
LastClass == AnswerClass(provider, lastCall.outcome)

\* the call layer will request the model of the last request once more
RetriesSameModel ==
    /\ pc = "call" /\ call.status = "calling"
    /\ call.models[call.current] = lastCall.model
    /\ call.attempt = lastCall.attempt + 1
    /\ call.slept = Pow2(lastCall.attempt)

\* C2 -- Throttling never consumes a fallback transition: after a throttling
\* answer the call layer has slept 2^attempt and retries the same model,
\* whatever the attempt was.
C2_ThrottleRetriesSameModel ==
    (Answered /\ LastClass = "throttle") => RetriesSameModel

\* C3 -- Fallback order: in a run whose primary model is not a fallback model
\* and is answered model-unavailable, and whose first fallback model answers
\* with a parsed reply, every batch is served by the first fallback model, no
\* other model is requested, and the primary model is requested at most
\* max_retries times over the whole run.
C3_FallbackOrder ==
    (InRun /\ model \notin Range(Fallbacks(provider)) /\ ~off_scenario) =>
        /\ primary_calls <= max_retries
        /\ ~others_called
        /\ (pc \in {"merge", "save", "write"} \/ b > 0) =>
              effective_model = Fallbacks(provider)[1]

\* the second batch of such a run has been served
C3_Witness ==
    /\ model \notin Range(Fallbacks(provider)) /\ ~off_scenario
    /\ pc = "merge" /\ b > 0
    /\ primary_calls > 0
    /\ effective_model = Fallbacks(provider)[1]

\* C7 -- Parse failure: below the ceiling the call layer sleeps 2^attempt and
\* retries the same model; at the ceiling (the 5th attempt on the model) it
\* returns the empty map and the current model, nothing is raised and no other
\* model is requested.
C7_ParseFailure ==
    (Answered /\ LastClass = "parse") =>
        IF lastCall.attempt < max_retries - 1
        THEN RetriesSameModel
        ELSE /\ pc = "merge" /\ call.status = "returned"
             /\ batch_results = EmptyDict
             /\ effective_model = lastCall.model
             /\ raised = NoError

\* the 5th attempt on a fallback model ends in a parse failure
C7_Witness ==
    /\ Answered /\ LastClass = "parse"
    /\ lastCall.attempt = max_retries - 1
    /\ lastCall.model # model
    /\ pc = "merge"

\* C8 -- Model unavailable: the call layer leaves the model at once for the
\* next candidate in list order (or ends, after the last candidate), and no
\* model answered model-unavailable is requested again in this invocation.
C8_ModelUnavailable ==
    /\ (Answered /\ LastClass = "unavailable") =>
          /\ call.current > 1
          /\ call.models[call.current - 1] = lastCall.model
          /\ IF call.current <= Len(call.models)
             THEN pc = "call" /\ call.status = "calling" /\ call.attempt = 0
             ELSE pc = "failed" /\ call.status = "raised"
    /\ (pc = "call" /\ call.status = "calling") =>
          call.models[call.current] \notin abandoned

\* a model is answered model-unavailable with attempts left, after an earlier
\* retry, and the next candidate is about to be requested
C8_Witness ==
    /\ Answered /\ LastClass = "unavailable"
    /\ lastCall.attempt \in 1..(max_retries - 2)
    /\ pc = "call" /\ call.attempt = 0
    /\ call.models[call.current] # lastCall.model

\* C9 -- Fatal propagation: a failure that is neither a parse failure nor
\* throttling nor model-unavailable ends the invocation and the run with that
\* failure; the batch is neither saved nor written.
C9_FatalPropagation ==
    (Answered /\ LastClass = "fatal") =>
        /\ pc = "failed" /\ call.status = "raised"
        /\ raised = lastCall.outcome.e
        /\ saves = writes /\ b = writes * batch_size
        /\ \A c \in Range(Batch) : c \notin DOMAIN Persisted.results

\* a fatal failure on the second batch, on a retry
C9_Witness ==
    /\ Answered /\ LastClass = "fatal"
    /\ lastCall.attempt > 0
    /\ b > 0 /\ Batch # <<>>
    /\ pc = "failed"

\* the invocation of the call layer has just ended
CallOver == Answered /\ call.status \in {"returned", "raised"}

\* every candidate model was requested and given up, none returned and none
\* failed fatally
Exhausted ==
    /\ CallOver /\ call.status = "raised"
    /\ tried = Range(call.models)
    /\ LastClass \in {"throttle", "unavailable"}

\* C10 as claimed -- the call layer ends with the RuntimeError when, and only
\* when, every candidate model was tried without a return.
C10_RuntimeErrorOnExhaustion ==
    CallOver => ((raised = AllModelsFailed) <=> Exhausted)

\* C10 as amended -- the call layer never raises the RuntimeError: it ends by
\* returning (after a parsed reply or the last parse failure), by propagating
\* a fatal failure, or, when and only when every candidate model was requested
\* and given up, by re-raising the last provider failure (a throttling or
\* model-unavailable failure).
C10_ExhaustionReraisesLastError ==
    /\ raised # AllModelsFailed
    /\ (pc = "call" /\ call.status = "calling") => call.current <= Len(call.models)
    /\ CallOver =>
          /\ call.status = "returned" <=> LastClass \in {"ok", "parse"}
          /\ call.status = "returned" => (pc = "merge" /\ raised = NoError)
          /\ call.status = "raised" =>
                /\ pc = "failed"
                /\ raised = lastCall.outcome.e
                /\ LastClass # "fatal" => Exhausted
          /\ Exhausted => call.current = Len(call.models) + 1

\* every candidate was given up, the last one by throttling on its 5th attempt
C10_Witness ==
    /\ Exhausted
    /\ LastClass = "throttle"
    /\ Cardinality(tried) > 1
    /\ raised = lastCall.outcome.e

----------------------------------------------------------------------------
(* Properties of the batch loop, checked under SpecBatches *)

\* ceil(n / s)
CeilDiv(n, s) == (n + s - 1) \div s

\* ss[lo] \o ... \o ss[hi]
RECURSIVE Concat(_, _, _)
Concat(ss, lo, hi) ==
    IF lo > hi THEN <<>>
    ELSE IF lo = hi THEN ss[lo]
    ELSE LET mid == (lo + hi) \div 2
         IN  Concat(ss, lo, mid) \o Concat(ss, mid + 1, hi)

\* C11 -- Batch partitioning: the run hands the call layer one batch at a
\* time; the i-th batch is the slice [(i-1)*s, min(i*s, n)) of the pending list,
\* which lists the codes of the input in first-seen order; every batch but the
\* last has s codes and none is empty; a run that completes has issued
\* ceil(n/s) batches whose concatenation is the pending list; n = 65 and
\* s = 30 give batches of 30, 30 and 5 codes.
C11_BatchPartitioning ==
    InRun =>
        LET n == Len(codes_to_process)
            s == batch_size
        IN  /\ codes_to_process = [i \in 1..Len(inFile.rows) |-> CodeOf(inFile.rows[i])]
            /\ Len(issued) <= CeilDiv(n, s)
            /\ Len(issued) = writes + (IF pc \in {"merge", "save", "write"} THEN 1 ELSE 0)
            /\ \A i \in 1..Len(issued) :
                  /\ issued[i] = SubSeq(codes_to_process, (i - 1) * s + 1, Min(i * s, n))
                  /\ Len(issued[i]) >= 1
                  /\ i < CeilDiv(n, s) => Len(issued[i]) = s
            /\ pc = "done" =>
                  /\ Len(issued) = CeilDiv(n, s)
                  /\ Concat(issued, 1, Len(issued)) = codes_to_process
                  /\ (n = 65 /\ s = 30) =>
                        [i \in 1..Len(issued) |-> Len(issued[i])] = <<30, 30, 5>>

\* a run over 65 pending codes with batch size 30 has completed in 3 batches
C11_Witness ==
    /\ pc = "done"
    /\ Len(codes_to_process) = 65 /\ batch_size = 30
    /\ Len(issued) = 3 /\ Len(issued[3]) = 5

----------------------------------------------------------------------------
(* Properties of successive invocations, checked under Spec *)

\* the invocation before this one ran under the same key and completed
Resumed == InRun /\ previous.end = "done" /\ previous.key = checkpoint_key

\* C12 -- Idempotence: an invocation that follows a completed one with the same
\* input and the same key finds no pending code, hands nothing to the call
\* layer, and neither saves the checkpoint nor writes the output: both files
\* stay as the first run left them.
C12_Idempotence ==
    Resumed =>
        /\ codes_to_process = <<>>
        /\ issued = <<>>
        /\ saves = 0 /\ writes = 0
        /\ pc \in {"loop", "done"}
        /\ outFile = prior_out
        /\ ckptFile = prior_ckpt

\* the second of two such invocations has completed over an output file that
\* holds a meaning
C12_Witness ==
    /\ Resumed /\ pc = "done"
    /\ outFile.exists /\ ckptFile.exists
    /\ \E i \in 1..Len(outFile.rows) : outFile.rows[i][column] # <<>>

----------------------------------------------------------------------------
(* Properties of the checkpoint store, checked under SpecStore *)

\* C13 -- save(key, checkpoint) changes the entry of key only: in every step,
\* load(k) returns after the step what it returned before it, for every key k
\* other than the key saved, whether or not the file existed before.
C13_SaveKeepsOtherKeys ==
    [][\A k \in CheckpointKeys :
           k # stored_key' =>
               load_checkpoint(ckptFile', k) = load_checkpoint(ckptFile, k)]_vars

\* the file holds three keys with three different checkpoints, none of them
\* the empty one
C13_Witness ==
    /\ ckptFile.exists
    /\ DOMAIN ckptFile.data = CheckpointKeys
    /\ \A k1, k2 \in CheckpointKeys :
          k1 # k2 => ckptFile.data[k1] # ckptFile.data[k2]
    /\ \A k \in CheckpointKeys : ckptFile.data[k] # EmptyCheckpoint

----------------------------------------------------------------------------
(* Properties of the command in any environment, checked under SpecMain *)

\* C15 -- Configuration errors are fatal before any effect: a run is under way
\* only when the input file exists and the credential of its provider is set;
\* otherwise the invocation has exited with status 1, having handed nothing to
\* the call layer and written neither the checkpoint file nor the output file.
C15_ConfigErrorsFatal ==
    /\ InRun => (inFile.exists /\ provider \in api_keys)
    /\ (runs > 0 /\ (~inFile.exists \/ provider \notin api_keys)) => pc = "exit1"
    /\ pc = "exit1" =>
          /\ ~inFile.exists \/ provider \notin api_keys
          /\ issued = <<>>
          /\ saves = 0 /\ writes = 0
          /\ ckptFile = prior_ckpt
          /\ outFile = prior_out

\* a gemini invocation without its credential has exited, after an openai
\* invocation that wrote a checkpoint and an output
C15_Witness ==
    /\ pc = "exit1"
    /\ inFile.exists /\ provider = "gemini" /\ api_keys = {"openai"}
    /\ ckptFile.exists /\ outFile.exists

----------------------------------------------------------------------------
(* Properties of the report, checked under SpecCompare *)

\* the cell holds a meaning: some text other than blanks between its semicolons
HoldsMeaning(cell) == \E i \in 1..Len(cell) : cell[i] \notin {" ", ";"}

\* the code-coverage set of a column of the CSV
Covered(col) ==
    { CodeOf(outFile.rows[i]) :
          i \in { j \in 1..Len(outFile.rows) : HoldsMeaning(Cell(outFile.rows[j], col)) } }

AnnotationColumns == { c \in Range(outFile.fieldnames) : IsMeaningsColumn(c) }

\* C16 -- Pairwise overlap: the report has one entry for every unordered pair
\* of annotation columns; with A and B the code-coverage sets of its columns,
\* the entry holds both = |A n B|, only_a = |A \ B|, only_b = |B \ A| and
\* jaccard = |A n B| / |A u B|, 0 when the union is empty; two codes covered
\* by each column, one of them by both, give 1, 1, 1 and 1/3.
C16_PairwiseOverlap ==
    stats # NoStats =>
        /\ \A ca, cb \in AnnotationColumns :
              ca # cb => Cardinality({ k \in 1..Len(stats.pairwise) :
                                          {stats.pairwise[k].a, stats.pairwise[k].b} = {ca, cb} }) = 1
        /\ \A k \in 1..Len(stats.pairwise) :
              LET e == stats.pairwise[k]
                  A == Covered(e.a)
                  B == Covered(e.b)
              IN  /\ e.a \in AnnotationColumns /\ e.b \in AnnotationColumns /\ e.a # e.b
                  /\ e.both = Cardinality(A \cap B)
                  /\ e.only_a = Cardinality(A \ B)
                  /\ e.only_b = Cardinality(B \ A)
                  /\ e.jaccard.den > 0
                  /\ e.jaccard.num * Cardinality(A \cup B) = Cardinality(A \cap B) * e.jaccard.den
                  /\ A \cup B = {} => e.jaccard.num = 0
                  /\ (Cardinality(A) = 2 /\ Cardinality(B) = 2 /\ Cardinality(A \cap B) = 1) =>
                        /\ e.both = 1 /\ e.only_a = 1 /\ e.only_b = 1
                        /\ 3 * e.jaccard.num = e.jaccard.den

\* the report on a CSV whose columns cover two codes each, one of them in common
C16_Witness ==
    /\ stats # NoStats
    /\ \E k \in 1..Len(stats.pairwise) :
          /\ Cardinality(Covered(stats.pairwise[k].a)) = 2
          /\ Cardinality(Covered(stats.pairwise[k].b)) = 2
          /\ stats.pairwise[k].both = 1
          /\ stats.pairwise[k].jaccard = [num |-> 1, den |-> 3]

\* a meaning in lower case, trimmed, without its trailing parenthetical; text
\* that does not end in a parenthetical is kept whole
NormalizedAsClaimed(meaning) ==
    LET s == Strip(Lower(meaning))
        opens == { i \in 1..Len(s) : s[i] = "(" }
    IN  IF s # <<>> /\ s[Len(s)] = ")" /\ opens # {}
        THEN Strip(SubSeq(s, 1, (CHOOSE i \in opens : \A j \in opens : j <= i) - 1))
        ELSE s

NoRepeatedCode ==
    \A i, j \in 1..Len(outFile.rows) :
        CodeOf(outFile.rows[i]) = CodeOf(outFile.rows[j]) => i = j

\* the normalized meanings of a code in a column, as claimed
ClaimedTokens(code, col) ==
    UNION { { NormalizedAsClaimed(m) : m \in Range(_parse_meanings(Cell(outFile.rows[i], col))) } :
                i \in { j \in 1..Len(outFile.rows) : CodeOf(outFile.rows[j]) = code } }

\* C17 -- Agreement: for every pair of columns agree_count is the number of
\* codes covered by both columns whose sets of normalized meanings intersect,
\* a meaning being normalized by lower-casing, trimming and dropping a
\* trailing parenthetical only (stated for CSVs that repeat no code).
C17_Agreement ==
    (stats # NoStats /\ NoRepeatedCode) =>
        \A k \in 1..Len(stats.agreement) :
            LET e == stats.agreement[k]
            IN  e.agree_count =
                    Cardinality({ code \in Covered(e.a) \cap Covered(e.b) :
                                      ClaimedTokens(code, e.a) \cap ClaimedTokens(code, e.b) # {} })

\* C23 -- Per-column statistics are consistent: for every annotation column
\* with a populated code, count is the number of distinct codes with a parsed
\* meaning, avg is total_meanings / count, min <= avg <= max (that is,
\* min * count <= total_meanings <= max * count), and the coverage percentage
\* is at most 100, whatever the rows, rows that repeat a code included.
C23_PerColumnConsistent ==
    stats # NoStats =>
        \A c \in AnnotationColumns :
            LET e == stats.per_column[c]
            IN  Covered(c) # {} =>
                    /\ e.count = Cardinality(Covered(c))
                    /\ e.avg = Quotient(e.total_meanings, e.count)
                    /\ e.min * e.count <= e.total_meanings
                    /\ e.total_meanings <= e.max * e.count
                    /\ e.pct.den > 0
                    /\ e.pct.num <= 100 * e.pct.den

\* the distinct codes of the CSV
TableCodes == { CodeOf(outFile.rows[i]) : i \in 1..Len(outFile.rows) }

\* C24 -- Aggregate overlap counts codes: `any` is the number of distinct codes
\* covered by at least one column, `all` the number covered by every column,
\* `none` the number of distinct codes of the input covered by no column, so
\* any + none is the number of distinct codes of the input and all <= any,
\* whatever the rows, rows that repeat a code included.
C24_OverlapCountsCodes ==
    stats # NoStats =>
        LET e == stats.overlap
            covered == UNION { Covered(c) : c \in AnnotationColumns }
        IN  /\ e.any = Cardinality(covered)
            /\ e.all = Cardinality({ x \in covered : \A c \in AnnotationColumns : x \in Covered(c) })
            /\ e.none = Cardinality(TableCodes \ covered)
            /\ e.any + e.none = Cardinality(TableCodes)
            /\ e.all <= e.any

\* the codes with at least one meaning in some column
RankedCodes == UNION { Covered(c) : c \in AnnotationColumns }

\* the row in which a code first appears
FirstAppearance(code) ==
    CHOOSE i \in 1..Len(outFile.rows) :
        /\ CodeOf(outFile.rows[i]) = code
        /\ \A j \in 1..(i - 1) : CodeOf(outFile.rows[j]) # code

\* the distinct normalized meanings the CSV holds for a code, over all columns
DistinctMeanings(code) ==
    { _normalize(m) :
          m \in UNION { Range(_parse_meanings(Cell(outFile.rows[i], c))) :
                            i \in { j \in 1..Len(outFile.rows) : CodeOf(outFile.rows[j]) = code },
                            c \in AnnotationColumns } }

\* C25 -- Top-N ranking: top_codes holds min(10, number of codes with at least
\* one meaning) entries, ordered by non-increasing count of distinct normalized
\* meanings across all columns; no code left out has more distinct meanings
\* than a code included, and codes with equal counts appear, and are cut off
\* at 10, in the order of their first appearance in the rows.
C25_TopCodesRanking ==
    stats # NoStats =>
        LET t == stats.top_codes
            D(x) == Cardinality(DistinctMeanings(x))
            included == { t[k].code : k \in 1..Len(t) }
        IN  /\ Len(t) = IF Cardinality(RankedCodes) < TopN
                        THEN Cardinality(RankedCodes) ELSE TopN
            /\ included \subseteq RankedCodes
            /\ \A k, l \in 1..Len(t) :
                  k < l =>
                      /\ D(t[k].code) >= D(t[l].code)
                      /\ D(t[k].code) = D(t[l].code) =>
                            FirstAppearance(t[k].code) < FirstAppearance(t[l].code)
            /\ \A x \in RankedCodes \ included :
                  \A k \in 1..Len(t) :
                      /\ D(x) <= D(t[k].code)
                      /\ D(x) = D(t[k].code) =>
                            FirstAppearance(t[k].code) < FirstAppearance(x)

----------------------------------------------------------------------------
(* Properties of the recorded results, checked under Spec *)

\* the returned map has no annotation for the code, under either spelling
Unannotated(reply, code) == code \notin DOMAIN reply /\ Upper(code) \notin DOMAIN reply

\* the batches handed to the call layer so far in this run
Queried == UNION { Range(issued[i]) : i \in 1..Len(issued) }

\* C19 -- Every code of a batch for which the call layer returned has an entry
\* in the results mapping under its upper-case key, the empty string when the
\* returned map has no annotation for it, and the saved checkpoint holds that
\* entry; a code the checkpoint records as empty when a run loads it is not
\* pending in that run and is in no batch the run hands to the call layer.
C19_EmptyResultsRecorded ==
    /\ pc \in {"save", "write"} =>
          \A c \in Range(Batch) :
              /\ Upper(c) \in DOMAIN results
              /\ Unannotated(batch_results, c) => results[Upper(c)] = <<>>
    /\ pc = "write" =>
          \A c \in Range(Batch) :
              /\ Upper(c) \in DOMAIN Persisted.results
              /\ Persisted.results[Upper(c)] = results[Upper(c)]
    /\ InRun =>
          \A c \in DOMAIN loaded :
              loaded[c] = <<>> => c \notin Range(codes_to_process) /\ c \notin Queried

\* a later run has completed on an input holding a code that the checkpoint it
\* loaded records as empty, after an earlier run's batch came back as the
\* empty map
C19_Witness ==
    /\ pc = "done"
    /\ runs > 1
    /\ \E i \in 1..Len(inFile.rows) :
          /\ CodeOf(inFile.rows[i]) \in DOMAIN loaded
          /\ loaded[CodeOf(inFile.rows[i])] = <<>>

\* what load(key) returns for any key
PersistedUnder(k) == load_checkpoint(ckptFile, k).results

\* C20 -- The persisted checkpoint only grows: in every step of every run, for
\* every key, each code of the persisted results mapping is still a code of it
\* after the step, with the same value.
C20_CheckpointOnlyGrows ==
    [][\A k \in CheckpointKeys :
          \A c \in DOMAIN PersistedUnder(k) :
              /\ c \in DOMAIN PersistedUnder(k)'
              /\ PersistedUnder(k)'[c] = PersistedUnder(k)[c]]_vars

\* a run that loaded results saved by an earlier run under its key has saved
\* a further batch: the persisted mapping holds the loaded codes and more
C20_Witness ==
    /\ pc = "write"
    /\ runs > 1
    /\ loaded # EmptyDict
    /\ DOMAIN loaded # DOMAIN Persisted.results
    /\ DOMAIN loaded \subseteq DOMAIN Persisted.results

----------------------------------------------------------------------------
(* Properties of terminated invocations, checked under SpecCrash *)

\* C18 -- Crash recovery converges: when an invocation was terminated and the
\* next invocation under the same key, on the same input, has completed, the
\* output file holds, for every input row, the value the checkpoint records
\* for the row's code in the target column.
C18_CrashRecoveryConverges ==
    (pc = "done" /\ previous.end = "killed" /\ previous.key = checkpoint_key) =>
        /\ outFile.exists
        /\ Len(outFile.rows) = Len(inFile.rows)
        /\ \A i \in 1..Len(inFile.rows) :
              /\ column \in DOMAIN outFile.rows[i]
              /\ outFile.rows[i][column] = Lookup(Persisted.results, CodeOf(inFile.rows[i]))

----------------------------------------------------------------------------
(* Termination of the call layer, checked under SpecCallsFair *)

RECURSIVE SumOver(_, _)
SumOver(f, S) ==
    IF S = {} THEN 0
    ELSE LET x == CHOOSE y \in S : TRUE IN f[x] + SumOver(f, S \ {x})

\* the provider requests of the invocation of the call layer so far
TotalRequests == SumOver(requests, DOMAIN requests)

\* an invocation of the call layer is under way
Calling == pc = "call" /\ call.status = "calling"

RequestsBounded ==
    call # NoInvocation =>
        /\ DOMAIN requests \subseteq Range(call.models)
        /\ \A m \in DOMAIN requests : requests[m] <= max_retries
        /\ TotalRequests <= max_retries * Len(call.models)

\* C21 -- The call layer always terminates: whatever the provider answers, an
\* invocation requests each candidate model at most 5 times, hence makes at
\* most 5 x (number of candidate models) requests, and then returns or raises.
C21_CallLayerTerminates ==
    /\ []RequestsBounded
    /\ Calling ~> (call.status \in {"returned", "raised"})

\* every candidate model was requested 5 times and the invocation has raised
C21_Witness ==
    /\ call.status = "raised"
    /\ Len(call.models) > 1
    /\ DOMAIN requests = Range(call.models)
    /\ \A m \in DOMAIN requests : requests[m] = max_retries
    /\ TotalRequests = max_retries * Len(call.models)

----------------------------------------------------------------------------
(* Properties of the candidate model list, checked under SpecLayer *)

\* the positions of a list at which a model appears for the first time
FirstOccurrences(ms) == { i \in 1..Len(ms) : \A j \in 1..(i - 1) : ms[j] # ms[i] }

\* the list without the later occurrences of a model
WithoutDuplicates(ms) ==
    LET first == FirstOccurrences(ms)
        nth(k) == CHOOSE i \in first : Cardinality({ j \in first : j < i }) = k - 1
    IN  [k \in 1..Cardinality(first) |-> ms[nth(k)]]

\* C22 -- The candidate model list of an invocation of the call layer is the
\* primary model followed by the fallback models in their given order with
\* duplicates removed: no model appears twice in it.
C22_CandidatesWithoutDuplicates ==
    (pc = "call" /\ call.status = "calling") =>
        /\ call.models = WithoutDuplicates(<<effective_model>> \o fb)
        /\ \A i, j \in 1..Len(call.models) : i # j => call.models[i] # call.models[j]

----------------------------------------------------------------------------
(* Properties of the flattened rendering, checked under SpecRender *)

\* an abbreviation entry without its "domain: " prefix
Meaning(abbr) ==
    LET at == { i \in 1..(Len(abbr) - 1) : abbr[i] = ":" /\ abbr[i + 1] = " " }
    IN  IF at = {} THEN abbr
        ELSE SubSeq(abbr, (CHOOSE i \in at : \A j \in at : i <= j) + 2, Len(abbr))

\* the values of an annotation as claimed: the word if present, then the
\* meanings that are not empty, in order, none equal to the word or to an
\* earlier meaning
ClaimedValues(data) ==
    LET word == IF data.word # None /\ data.word # <<>> THEN <<data.word>> ELSE <<>>
        ms == [i \in 1..Len(data.abbreviations) |-> Meaning(data.abbreviations[i])]
        kept == { i \in 1..Len(ms) :
                      /\ ms[i] # <<>>
                      /\ ms[i] \notin Range(word)
                      /\ \A j \in 1..(i - 1) : ms[j] # ms[i] }
        nth(k) == CHOOSE i \in kept : Cardinality({ j \in kept : j < i }) = k - 1
    IN  word \o [k \in 1..Cardinality(kept) |-> ms[nth(k)]]

\* the rendering claimed for the reply's entry of a code
ClaimedRendering(reply, code) ==
    IF code \notin DOMAIN reply THEN <<>>
    ELSE Join(ClaimedValues(reply[code]), <<";", " ">>)

\* the value recorded for the code of the batch is the rendering claimed
RenderingRecorded ==
    pc \in {"save", "write", "loop", "done"} =>
        results[<<"A">>] = ClaimedRendering(batch_results, <<"A">>)

\* C26 -- Flattened rendering: for an annotation {word, abbreviations} the
\* recorded value is the word (if present) followed by the abbreviation
\* meanings in order, without their "domain: " prefix, no value twice, joined
\* by "; "; an absent annotation renders as the empty string; and once the
\* output is written every row has the target column as a field, holding that
\* value.
C26_FlattenedRendering ==
    /\ RenderingRecorded
    /\ (pc \in {"loop", "done"} /\ writes > 0) =>
          \A i \in 1..Len(outFile.rows) :
              /\ column \in DOMAIN outFile.rows[i]
              /\ outFile.rows[i][column] = ClaimedRendering(batch_results, <<"A">>)

============================================================================
